---- MODULE Spec2Model ----
(***************************************************************************)
(* Model of the itinerary optimizer (src/netlify/functions/optimizer.py):  *)
(* class ItineraryOptimizer with its constructor, the two normalizers, the *)
(* single-best selection of a flight and of a hotel, the greedy per-day    *)
(* selection of activities and the assembly of the itinerary.              *)
(*                                                                         *)
(* Numbers.  Python floats are modelled exactly where the code's result    *)
(* depends on them:                                                        *)
(*   - weights are integers in hundredths (0.6 is 60);                     *)
(*   - prices, durations and ratings are integers, and float('inf') is the *)
(*     value Inf, larger than every finite value of the model;             *)
(*   - a normalized value or a score is a rational [num, den] in lowest    *)
(*     terms with den > 0, or NaN, and the IEEE-754 rules the code meets are written out       *)
(*     (inf - inf = nan, x / inf = 0, nan propagates in sums, products).  *)
(* A Python dict is a function from its keys to values, dict.get(k, d) is  *)
(* Get(d, k, default), and None is the record None.  A string that the     *)
(* code parses (a date) is the sequence of its characters.                 *)
(***************************************************************************)
EXTENDS Integers, Sequences, FiniteSets, TLC

VARIABLES
    self,   \* the optimizer object: None, or [cost_weight, time_weight]
    pc,     \* "new" | "failed" | "ready" | "done"
    op,     \* the method last called ("none" before the constructor)
    args,   \* its arguments
    ret,    \* what it returned (None when it raised or returned None)
    exc     \* the exception it raised, "none" when it returned

vars == <<self, pc, op, args, ret, exc>>

None == [None |-> TRUE]

\* dict.get(key, default)
Get(d, key, default) == IF key \in DOMAIN d THEN d[key] ELSE default

(***************************************************************************)
(* Floats                                                                  *)
(***************************************************************************)
\* float('inf'): compares greater than every finite value
Inf == 1000000

Abs(x) == IF x < 0 THEN -x ELSE x

RECURSIVE GCD(_, _)
GCD(a, b) == IF b = 0 THEN a ELSE GCD(b, a % b)

NaN == [nan |-> TRUE, num |-> 0, den |-> 1]
\* the rational n / d (d > 0) in lowest terms
Rat(n, d) == LET g == GCD(Abs(n), d)
             IN  [nan |-> FALSE, num |-> n \div g, den |-> d \div g]
One == Rat(1, 1)

IsNaN(x) == x.nan
\* IEEE comparisons: every comparison with NaN is false
FLess(x, y) == ~x.nan /\ ~y.nan /\ x.num * y.den < y.num * x.den
FEq(x, y) == ~x.nan /\ ~y.nan /\ x.num * y.den = y.num * x.den
FLeq(x, y) == FLess(x, y) \/ FEq(x, y)

\* w * x for a weight w in hundredths
FScale(w, x) == IF x.nan THEN NaN ELSE Rat(w * x.num, 100 * x.den)
FAdd(x, y) == IF x.nan \/ y.nan THEN NaN
              ELSE Rat(x.num * y.den + y.num * x.den, x.den * y.den)

RECURSIVE SeqMax(_)
SeqMax(s) == IF Len(s) = 1 THEN s[1]
             ELSE LET m == SeqMax(Tail(s)) IN IF s[1] > m THEN s[1] ELSE m
RECURSIVE SeqMin(_)
SeqMin(s) == IF Len(s) = 1 THEN s[1]
             ELSE LET m == SeqMin(Tail(s)) IN IF s[1] < m THEN s[1] ELSE m

\* list.index(x): the first position holding x
Index(s, x) == CHOOSE i \in DOMAIN s : s[i] = x /\ \A j \in 1..(i - 1) : s[j] # x

\* (mutant) np.argmin for np.argmax: the first NaN when there is one, else the
\* first position of the minimum
np_argmin(scores) ==
    IF \E i \in DOMAIN scores : IsNaN(scores[i])
    THEN CHOOSE i \in DOMAIN scores :
            IsNaN(scores[i]) /\ \A j \in 1..(i - 1) : ~IsNaN(scores[j])
    ELSE CHOOSE i \in DOMAIN scores :
            /\ \A j \in DOMAIN scores : FLeq(scores[i], scores[j])
            /\ \A j \in 1..(i - 1) : FLess(scores[i], scores[j])

\* np.argmax over floats: the first NaN when there is one, else the first
\* position of the maximum
np_argmax(scores) ==
    IF \E i \in DOMAIN scores : IsNaN(scores[i])
    THEN CHOOSE i \in DOMAIN scores :
            IsNaN(scores[i]) /\ \A j \in 1..(i - 1) : ~IsNaN(scores[j])
    ELSE CHOOSE i \in DOMAIN scores :
            /\ \A j \in DOMAIN scores : FLeq(scores[j], scores[i])
            /\ \A j \in 1..(i - 1) : FLess(scores[j], scores[i])

(***************************************************************************)
(* ItineraryOptimizer.__init__                                             *)
(***************************************************************************)
\* (mutant) the test without abs()
WeightsRejected_NoAbs(cost_weight, time_weight) ==
    cost_weight + time_weight - 100 > 1

\* abs(cost_weight + time_weight - 1.0) > 0.01, in hundredths
WeightsRejected(cost_weight, time_weight) ==
    Abs(cost_weight + time_weight - 100) > 1

(***************************************************************************)
(* normalize_cost, normalize_time                                          *)
(***************************************************************************)
\* 1 - (v - lo) / (hi - lo) for lo < hi, lo finite
LowerIsBetter(v, lo, hi) ==
    IF hi = Inf
    THEN IF v = Inf THEN NaN      \* (inf - lo) / (inf - lo) = nan
         ELSE One                 \* (v - lo) / inf = 0
    ELSE Rat(hi - v, hi - lo)

\* (mutant) normalize_cost without the test max_cost == min_cost: equal values
\* divide 0 by 0, which is nan
normalize_cost_NoDegenerateCase(costs) ==
    IF costs = <<>> THEN <<>>
    ELSE LET max_cost == SeqMax(costs)
             min_cost == SeqMin(costs)
         IN  [i \in DOMAIN costs |->
                 IF max_cost = min_cost THEN NaN
                 ELSE LowerIsBetter(costs[i], min_cost, max_cost)]

normalize_cost(costs) ==
    IF costs = <<>> THEN <<>>
    ELSE LET max_cost == SeqMax(costs)
             min_cost == SeqMin(costs)
         IN  IF max_cost = min_cost
             THEN [i \in DOMAIN costs |-> One]
             ELSE [i \in DOMAIN costs |-> LowerIsBetter(costs[i], min_cost, max_cost)]

normalize_time(times) ==
    IF times = <<>> THEN <<>>
    ELSE LET max_time == SeqMax(times)
             min_time == SeqMin(times)
         IN  IF max_time = min_time
             THEN [i \in DOMAIN times |-> One]
             ELSE [i \in DOMAIN times |-> LowerIsBetter(times[i], min_time, max_time)]

(***************************************************************************)
(* calculate_score, select_best_flight                                     *)
(***************************************************************************)
calculate_score(obj, cost, time, all_costs, all_times) ==
    LET cost_normalized == normalize_cost(all_costs)
        time_normalized == normalize_time(all_times)
        cost_idx == Index(all_costs, cost)
        time_idx == Index(all_times, time)
        cost_score == cost_normalized[cost_idx]
        time_score == time_normalized[time_idx]
    IN  FAdd(FScale(obj.cost_weight, cost_score), FScale(obj.time_weight, time_score))

FlightCosts(flights) == [i \in DOMAIN flights |-> Get(flights[i], "total_price", Inf)]
FlightTimes(flights) == [i \in DOMAIN flights |-> Get(flights[i], "duration_hours", Inf)]

FlightScores(obj, flights) ==
    LET costs == FlightCosts(flights)
        times == FlightTimes(flights)
    IN  [i \in DOMAIN flights |-> calculate_score(obj, costs[i], times[i], costs, times)]

select_best_flight(obj, flights) ==
    IF flights = <<>> THEN None
    ELSE flights[np_argmax(FlightScores(obj, flights))]

(***************************************************************************)
(* select_best_hotel                                                       *)
(***************************************************************************)
HotelCosts(hotels) == [i \in DOMAIN hotels |-> Get(hotels[i], "total_price", Inf)]
HotelRatings(hotels) == [i \in DOMAIN hotels |-> Get(hotels[i], "rating", 0)]

\* the normalization of the ratings, higher is better (ratings is not empty)
RatingScores(ratings) ==
    LET max_rating == SeqMax(ratings)
        min_rating == SeqMin(ratings)
    IN  IF max_rating = min_rating
        THEN [i \in DOMAIN ratings |-> One]
        ELSE [i \in DOMAIN ratings |->
                 Rat(ratings[i] - min_rating, max_rating - min_rating)]

HotelScores(obj, hotels) ==
    LET rating_scores == RatingScores(HotelRatings(hotels))
        cost_scores == normalize_cost(HotelCosts(hotels))
    IN  [i \in DOMAIN hotels |->
            FAdd(FScale(obj.cost_weight, cost_scores[i]),
                 FScale(obj.time_weight, rating_scores[i]))]

select_best_hotel(obj, hotels) ==
    IF hotels = <<>> THEN None
    ELSE hotels[np_argmax(HotelScores(obj, hotels))]

(***************************************************************************)
(* select_activities                                                       *)
(***************************************************************************)
\* (rating * 2) / (price / 50) for price > 0; a finite value over inf is 0
ValueScore(activity) ==
    LET price == Get(activity, "price_per_person", Inf)
        rating == Get(activity, "rating", 0)
    IN  IF price = Inf THEN Rat(0, 1) ELSE Rat(rating * 2 * 50, price)

\* (mutant) the first loop without the test of the duration
RECURSIVE ActivitiesWithValue_NoDurationTest(_)
ActivitiesWithValue_NoDurationTest(activities) ==
    IF activities = <<>> THEN <<>>
    ELSE LET activity == Head(activities)
             price == Get(activity, "price_per_person", Inf)
             rest == ActivitiesWithValue_NoDurationTest(Tail(activities))
         IN  IF price > 0
             THEN <<[value_score |-> ValueScore(activity), activity |-> activity]>> \o rest
             ELSE rest

\* the activities the first loop keeps, each with its value score
RECURSIVE ActivitiesWithValue(_)
ActivitiesWithValue(activities) ==
    IF activities = <<>> THEN <<>>
    ELSE LET activity == Head(activities)
             price == Get(activity, "price_per_person", Inf)
             duration == Get(activity, "duration_hours", 0)
             rest == ActivitiesWithValue(Tail(activities))
         IN  IF price > 0 /\ duration > 0
             THEN <<[value_score |-> ValueScore(activity), activity |-> activity]>> \o rest
             ELSE rest

\* (mutant) a sort that is not stable: an entry goes before the entries already
\* placed whose key equals its own
RECURSIVE InsertDescending_Unstable(_, _)
InsertDescending_Unstable(sorted, x) ==
    IF sorted = <<>> THEN <<x>>
    ELSE IF FLeq(Head(sorted).value_score, x.value_score)
         THEN <<x>> \o sorted
         ELSE <<Head(sorted)>> \o InsertDescending_Unstable(Tail(sorted), x)

\* list.sort(key, reverse=True): descending and stable, an entry goes behind
\* the entries already placed whose key is at least its own
RECURSIVE InsertDescending(_, _)
InsertDescending(sorted, x) ==
    IF sorted = <<>> THEN <<x>>
    ELSE IF FLess(Head(sorted).value_score, x.value_score)
         THEN <<x>> \o sorted
         ELSE <<Head(sorted)>> \o InsertDescending(Tail(sorted), x)

RECURSIVE SortDescending(_, _)
SortDescending(sorted, todo) ==
    IF todo = <<>> THEN sorted
    ELSE SortDescending(InsertDescending(sorted, Head(todo)), Tail(todo))

\* (mutant) the greedy loop without the test of the hours
RECURSIVE GreedySelect_NoHourBudget(_, _, _, _, _)
GreedySelect_NoHourBudget(todo, selected, total_hours, max_activities_per_day, max_total_hours) ==
    IF todo = <<>> THEN selected
    ELSE LET activity == Head(todo).activity
             duration == Get(activity, "duration_hours", 0)
         IN  IF Len(selected) < max_activities_per_day
             THEN GreedySelect_NoHourBudget(Tail(todo), Append(selected, activity),
                                            total_hours + duration,
                                            max_activities_per_day, max_total_hours)
             ELSE GreedySelect_NoHourBudget(Tail(todo), selected, total_hours,
                                            max_activities_per_day, max_total_hours)

\* (mutant) the greedy loop that stops at the first activity that does not fit
RECURSIVE GreedySelect_StopAtFirstMiss(_, _, _, _, _)
GreedySelect_StopAtFirstMiss(todo, selected, total_hours, max_activities_per_day, max_total_hours) ==
    IF todo = <<>> THEN selected
    ELSE LET activity == Head(todo).activity
             duration == Get(activity, "duration_hours", 0)
         IN  IF /\ Len(selected) < max_activities_per_day
                /\ total_hours + duration <= max_total_hours
             THEN GreedySelect_StopAtFirstMiss(Tail(todo), Append(selected, activity),
                                               total_hours + duration,
                                               max_activities_per_day, max_total_hours)
             ELSE selected

\* (mutant) the greedy loop with < for <= in the test of the hours
RECURSIVE GreedySelect_StrictHours(_, _, _, _, _)
GreedySelect_StrictHours(todo, selected, total_hours, max_activities_per_day, max_total_hours) ==
    IF todo = <<>> THEN selected
    ELSE LET activity == Head(todo).activity
             duration == Get(activity, "duration_hours", 0)
         IN  IF /\ Len(selected) < max_activities_per_day
                /\ total_hours + duration < max_total_hours
             THEN GreedySelect_StrictHours(Tail(todo), Append(selected, activity),
                                           total_hours + duration,
                                           max_activities_per_day, max_total_hours)
             ELSE GreedySelect_StrictHours(Tail(todo), selected, total_hours,
                                           max_activities_per_day, max_total_hours)

\* the greedy loop over the sorted activities
RECURSIVE GreedySelect(_, _, _, _, _)
GreedySelect(todo, selected, total_hours, max_activities_per_day, max_total_hours) ==
    IF todo = <<>> THEN selected
    ELSE LET activity == Head(todo).activity
             duration == Get(activity, "duration_hours", 0)
         IN  IF /\ Len(selected) < max_activities_per_day
                /\ total_hours + duration <= max_total_hours
             THEN GreedySelect(Tail(todo), Append(selected, activity),
                               total_hours + duration,
                               max_activities_per_day, max_total_hours)
             ELSE GreedySelect(Tail(todo), selected, total_hours,
                               max_activities_per_day, max_total_hours)

select_activities(activities, max_activities_per_day, max_total_hours) ==
    IF activities = <<>> THEN <<>>
    ELSE GreedySelect(SortDescending(<<>>, ActivitiesWithValue(activities)),
                      <<>>, 0, max_activities_per_day, max_total_hours)

\* the defaults of select_activities
DefaultMaxActivitiesPerDay == 3
DefaultMaxTotalHours == 8

(***************************************************************************)
(* Dates: datetime.strptime(s, "%Y-%m-%d"), datetime + timedelta(days=1),  *)
(* datetime.strftime("%Y-%m-%d").  A datetime at midnight is its ordinal   *)
(* (the days since 0001-01-01, which is day 1).                            *)
(***************************************************************************)
DigitChars == <<"0", "1", "2", "3", "4", "5", "6", "7", "8", "9">>
IsDigit(c) == \E i \in DOMAIN DigitChars : DigitChars[i] = c
DigitVal(c) == (CHOOSE i \in DOMAIN DigitChars : DigitChars[i] = c) - 1
NonZeroDigit(c) == IsDigit(c) /\ c # "0"

\* the character at position i, "" behind the end
At(s, i) == IF i \in DOMAIN s THEN s[i] ELSE ""

IsLeap(y) == y % 4 = 0 /\ (y % 100 # 0 \/ y % 400 = 0)
DaysInMonth(y, m) ==
    IF m = 2 THEN (IF IsLeap(y) THEN 29 ELSE 28)
    ELSE IF m \in {4, 6, 9, 11} THEN 30 ELSE 31
DaysBeforeYear(y) ==
    LET p == y - 1 IN p * 365 + (p \div 4) - (p \div 100) + (p \div 400)
RECURSIVE DaysBeforeMonth(_, _)
DaysBeforeMonth(y, m) ==
    IF m = 1 THEN 0 ELSE DaysBeforeMonth(y, m - 1) + DaysInMonth(y, m - 1)
ToOrdinal(y, m, d) == DaysBeforeYear(y) + DaysBeforeMonth(y, m) + d

\* datetime.max, 9999-12-31
MaxOrdinal == ToOrdinal(9999, 12, 31)

\* the year, month and day of an ordinal
FromOrdinal(n) ==
    LET n0 == n - 1
        n400 == n0 \div 146097
        r400 == n0 % 146097
        n100 == r400 \div 36524
        r100 == r400 % 36524
        n4 == r100 \div 1461
        r4 == r100 % 1461
        n1 == r4 \div 365
        year == n400 * 400 + n100 * 100 + n4 * 4 + n1 + 1
    IN  IF n1 = 4 \/ n100 = 4
        THEN [year |-> year - 1, month |-> 12, day |-> 31]
        ELSE LET rest == n - DaysBeforeYear(year)
                 month == CHOOSE m \in 1..12 :
                             /\ DaysBeforeMonth(year, m) < rest
                             /\ rest <= DaysBeforeMonth(year, m) + DaysInMonth(year, m)
             IN  [year |-> year, month |-> month,
                  day |-> rest - DaysBeforeMonth(year, month)]

\* The pattern strptime compiles "%Y-%m-%d" to:
\*   (\d\d\d\d)-(1[0-2]|0[1-9]|[1-9])-(3[01]|[12]\d|0[1-9]|[1-9]| [1-9])
\* The length of the month at position i (0: no alternative matches).  An
\* alternative of two characters that matches leaves no shorter one that is
\* followed by "-", so the first alternative that matches decides.
MonthLen(s, i) ==
    IF At(s, i) = "1" /\ At(s, i + 1) \in {"0", "1", "2"} THEN 2
    ELSE IF At(s, i) = "0" /\ NonZeroDigit(At(s, i + 1)) THEN 2
    ELSE IF NonZeroDigit(At(s, i)) THEN 1
    ELSE 0
\* The length of the day at position i: the pattern ends with it, so its first
\* alternative that matches is taken.
DayLen(s, i) ==
    IF At(s, i) = "3" /\ At(s, i + 1) \in {"0", "1"} THEN 2
    ELSE IF At(s, i) \in {"1", "2"} /\ IsDigit(At(s, i + 1)) THEN 2
    ELSE IF At(s, i) = "0" /\ NonZeroDigit(At(s, i + 1)) THEN 2
    ELSE IF NonZeroDigit(At(s, i)) THEN 1
    ELSE IF At(s, i) = " " /\ NonZeroDigit(At(s, i + 1)) THEN 2
    ELSE 0
\* int() of the characters i .. i + len - 1 (a leading blank counts nothing)
RECURSIVE IntOf(_, _, _)
IntOf(s, i, len) ==
    IF len = 0 THEN 0
    ELSE IntOf(s, i, len - 1) * 10
         + (IF s[i + len - 1] = " " THEN 0 ELSE DigitVal(s[i + len - 1]))

Raised(e) == [exc |-> e, value |-> None]
Returned(v) == [exc |-> "none", value |-> v]

\* (mutant) a parser that does not check the day against the month
strptime_NoCalendarCheck(s) ==
    LET mlen == MonthLen(s, 6)
        dlen == DayLen(s, 7 + mlen)
        matched == /\ \A i \in 1..4 : IsDigit(At(s, i))
                   /\ At(s, 5) = "-"
                   /\ mlen > 0
                   /\ At(s, 6 + mlen) = "-"
                   /\ dlen > 0
    IN  IF ~matched THEN Raised("ValueError")
        ELSE IF Len(s) # 6 + mlen + dlen THEN Raised("ValueError")
        ELSE Returned(ToOrdinal(IntOf(s, 1, 4), IntOf(s, 6, mlen),
                                IntOf(s, 7 + mlen, dlen)))

\* datetime.strptime(s, "%Y-%m-%d"): the ordinal of the date, or ValueError when
\* the pattern does not match at the start, characters remain behind the
\* match, or the date does not exist
strptime(s) ==
    LET mlen == MonthLen(s, 6)
        dlen == DayLen(s, 7 + mlen)
        matched == /\ \A i \in 1..4 : IsDigit(At(s, i))
                   /\ At(s, 5) = "-"
                   /\ mlen > 0
                   /\ At(s, 6 + mlen) = "-"
                   /\ dlen > 0
    IN  IF ~matched THEN Raised("ValueError")
        ELSE IF Len(s) # 6 + mlen + dlen THEN Raised("ValueError")
        ELSE LET year == IntOf(s, 1, 4)
                 month == IntOf(s, 6, mlen)
                 day == IntOf(s, 7 + mlen, dlen)
             IN  IF year < 1 \/ day > DaysInMonth(year, month)
                 THEN Raised("ValueError")
                 ELSE Returned(ToOrdinal(year, month, day))

TwoDigits(n) == <<DigitChars[(n \div 10) + 1], DigitChars[(n % 10) + 1]>>
\* datetime.strftime("%Y-%m-%d") for the years 1000 to 9999
strftime(n) ==
    LET date == FromOrdinal(n)
    IN  TwoDigits(date.year \div 100) \o TwoDigits(date.year % 100) \o <<"-">>
        \o TwoDigits(date.month) \o <<"-">> \o TwoDigits(date.day)

(***************************************************************************)
(* create_itinerary                                                        *)
(***************************************************************************)
\* the truth value of a dict or None: None and the empty dict are false
Truthy(d) == d # None /\ DOMAIN d # {}

\* (mutant) the activities of every date
ActivitiesOn_AnyDate(activities, date_str) == activities

\* [a for a in activities if a.get("date") == date_str]
RECURSIVE ActivitiesOn(_, _)
ActivitiesOn(activities, date_str) ==
    IF activities = <<>> THEN <<>>
    ELSE LET a == Head(activities)
             rest == ActivitiesOn(Tail(activities), date_str)
         IN  IF "date" \in DOMAIN a /\ a["date"] = date_str
             THEN <<a>> \o rest ELSE rest

\* sum(a.get(key, 0) for a in selected)
RECURSIVE SumOf(_, _)
SumOf(selected, key) ==
    IF selected = <<>> THEN 0
    ELSE Get(Head(selected), key, 0) + SumOf(Tail(selected), key)

\* (mutant) the loop with <= for <: it plans the day of the return too
RECURSIVE DayLoop_Inclusive(_, _, _, _)
DayLoop_Inclusive(current_date, return_dt, activities, acc) ==
    IF ~(current_date <= return_dt) THEN acc
    ELSE LET date_str == strftime(current_date)
             selected_activities ==
                 select_activities(ActivitiesOn(activities, date_str),
                                   DefaultMaxActivitiesPerDay, DefaultMaxTotalHours)
             day_cost == SumOf(selected_activities, "total_price")
             day_time == SumOf(selected_activities, "duration_hours")
         IN  DayLoop_Inclusive(current_date + 1, return_dt, activities,
                 [itinerary_days |-> Append(acc.itinerary_days,
                                            [date |-> date_str,
                                             activities |-> selected_activities,
                                             total_cost |-> day_cost,
                                             total_time_hours |-> day_time]),
                  total_cost |-> acc.total_cost + day_cost,
                  total_time |-> acc.total_time + day_time])

\* the while loop over the full days; acc holds itinerary_days, total_cost
\* and total_time
RECURSIVE DayLoop(_, _, _, _)
DayLoop(current_date, return_dt, activities, acc) ==
    IF ~(current_date < return_dt) THEN acc
    ELSE LET date_str == strftime(current_date)
             day_activities == ActivitiesOn(activities, date_str)
             selected_activities ==
                 select_activities(day_activities, DefaultMaxActivitiesPerDay,
                                   DefaultMaxTotalHours)
             day_cost == SumOf(selected_activities, "total_price")
             day_time == SumOf(selected_activities, "duration_hours")
             day_plan == [date |-> date_str,
                          activities |-> selected_activities,
                          total_cost |-> day_cost,
                          total_time_hours |-> day_time]
         IN  DayLoop(current_date + 1, return_dt, activities,
                     [itinerary_days |-> Append(acc.itinerary_days, day_plan),
                      total_cost |-> acc.total_cost + day_cost,
                      total_time |-> acc.total_time + day_time])

\* (mutant) create_itinerary that adds the hotel's duration_hours to the time
create_itinerary_HotelTime(obj, flights, hotels, activities, departure_date, return_date) ==
    LET best_flight == select_best_flight(obj, flights)
        best_hotel == select_best_hotel(obj, hotels)
        departure == strptime(departure_date)
        return_dt == strptime(return_date)
    IN  IF departure.exc # "none" THEN Raised(departure.exc)
        ELSE IF return_dt.exc # "none" THEN Raised(return_dt.exc)
        ELSE IF departure.value + 1 > MaxOrdinal THEN Raised("OverflowError")
        ELSE LET flight_cost == IF Truthy(best_flight)
                                THEN Get(best_flight, "total_price", 0) ELSE 0
                 flight_time == IF Truthy(best_flight)
                                THEN Get(best_flight, "duration_hours", 0) ELSE 0
                 hotel_cost == IF Truthy(best_hotel)
                               THEN Get(best_hotel, "total_price", 0) ELSE 0
                 hotel_time == IF Truthy(best_hotel)
                               THEN Get(best_hotel, "duration_hours", 0) ELSE 0
                 done == DayLoop(departure.value + 1, return_dt.value, activities,
                                 [itinerary_days |-> <<>>,
                                  total_cost |-> flight_cost + hotel_cost,
                                  total_time |-> flight_time + hotel_time])
             IN  Returned([flight |-> best_flight,
                           hotel |-> best_hotel,
                           days |-> done.itinerary_days,
                           summary |-> [total_cost |-> done.total_cost,
                                        total_time_hours |-> done.total_time,
                                        duration_days |-> return_dt.value - departure.value,
                                        departure_date |-> departure_date,
                                        return_date |-> return_date]])

create_itinerary(obj, flights, hotels, activities, departure_date, return_date) ==
    LET best_flight == select_best_flight(obj, flights)
        best_hotel == select_best_hotel(obj, hotels)
        departure == strptime(departure_date)
        return_dt == strptime(return_date)
    IN  IF departure.exc # "none" THEN Raised(departure.exc)
        ELSE IF return_dt.exc # "none" THEN Raised(return_dt.exc)
        \* departure + timedelta(days=1) behind datetime.max
        ELSE IF departure.value + 1 > MaxOrdinal THEN Raised("OverflowError")
        ELSE LET flight_cost == IF Truthy(best_flight)
                                THEN Get(best_flight, "total_price", 0) ELSE 0
                 flight_time == IF Truthy(best_flight)
                                THEN Get(best_flight, "duration_hours", 0) ELSE 0
                 hotel_cost == IF Truthy(best_hotel)
                               THEN Get(best_hotel, "total_price", 0) ELSE 0
                 done == DayLoop(departure.value + 1, return_dt.value, activities,
                                 [itinerary_days |-> <<>>,
                                  total_cost |-> flight_cost + hotel_cost,
                                  total_time |-> flight_time])
             IN  Returned([flight |-> best_flight,
                           hotel |-> best_hotel,
                           days |-> done.itinerary_days,
                           summary |-> [total_cost |-> done.total_cost,
                                        total_time_hours |-> done.total_time,
                                        duration_days |-> return_dt.value - departure.value,
                                        departure_date |-> departure_date,
                                        return_date |-> return_date]])

(***************************************************************************)
(* The inputs of the model                                                 *)
(***************************************************************************)
MaxFlights == 3
MaxHotels == 3
MaxValues == 3
MaxActivities == 5
MaxPerDay == 3
MaxDayActivities == 4
MaxTripDays == 8
MaxUnscorable == 3
MaxTotalsActivities == 2

SeqsUpTo(S, n) == UNION {[1..k -> S] : k \in 0..n}

\* weights in hundredths; no sum is exactly 0.99 or 1.01, where the rounding
\* of the binary floats would decide the constructor's test
Weights == {-50, 0, 40, 50, 60, 100, 150}
\* the defaults (0.6, 0.4) and a pair that is refused
ConfigWeights == {<<60, 40>>, <<50, 40>>}

Prices == {500, 800, 1200}
Durations == {5, 7, 10}
Ratings == {3, 5}

\* flights, two of them with a field missing
Flights ==
    {[total_price |-> p, duration_hours |-> d] : p \in Prices, d \in Durations}
    \cup {[total_price |-> 800], [duration_hours |-> 5]}
FlightLists == SeqsUpTo(Flights, MaxFlights)

\* hotels, two of them with a field missing
Hotels ==
    {[total_price |-> p, rating |-> r] : p \in {500, 800}, r \in Ratings}
    \cup {[total_price |-> 500], [rating |-> 5]}
HotelLists == SeqsUpTo(Hotels, MaxHotels)

\* lists of costs or times as select_best_flight and select_best_hotel build them
ValueLists == SeqsUpTo(Prices \cup {Inf}, MaxValues)

\* activities for select_activities: value 8 and three hours, value 20 and five
\* hours, value 8 and one hour, and one without a duration
ActivityOptions ==
    { [price_per_person |-> 50, rating |-> 4, duration_hours |-> 3],
      [price_per_person |-> 25, rating |-> 5, duration_hours |-> 5],
      [price_per_person |-> 50, rating |-> 4, duration_hours |-> 1],
      [price_per_person |-> 50, rating |-> 5] }
ActivityLists == SeqsUpTo(ActivityOptions, MaxActivities)
HourBudgets == {5, 8}

\* activities the first loop of select_activities has to drop (a price or a
\* duration that is not positive, or no duration at all), and one it keeps
UnscorableOptions ==
    { [price_per_person |-> 0, rating |-> 5, duration_hours |-> 1],
      [price_per_person |-> -10, rating |-> 5, duration_hours |-> 1],
      [price_per_person |-> 50, rating |-> 5, duration_hours |-> 0],
      [price_per_person |-> 50, rating |-> 5, duration_hours |-> -1],
      [price_per_person |-> 50, rating |-> 5],
      [price_per_person |-> 50, rating |-> 4, duration_hours |-> 1] }
UnscorableLists == SeqsUpTo(UnscorableOptions, MaxUnscorable)

\* date strings: twelve that parse (one of them not zero-padded, two at the
\* end of February of a leap year, two around a new year, the last two days
\* of the calendar) and five that do not
D_2025_06_01 == <<"2", "0", "2", "5", "-", "0", "6", "-", "0", "1">>
D_2025_06_02 == <<"2", "0", "2", "5", "-", "0", "6", "-", "0", "2">>
D_2025_06_03 == <<"2", "0", "2", "5", "-", "0", "6", "-", "0", "3">>
D_2025_06_04 == <<"2", "0", "2", "5", "-", "0", "6", "-", "0", "4">>
D_2025_06_08 == <<"2", "0", "2", "5", "-", "0", "6", "-", "0", "8">>
D_2025_6_1 == <<"2", "0", "2", "5", "-", "6", "-", "1">>
D_2024_02_27 == <<"2", "0", "2", "4", "-", "0", "2", "-", "2", "7">>
D_2024_03_02 == <<"2", "0", "2", "4", "-", "0", "3", "-", "0", "2">>
D_2025_12_30 == <<"2", "0", "2", "5", "-", "1", "2", "-", "3", "0">>
D_2026_01_02 == <<"2", "0", "2", "6", "-", "0", "1", "-", "0", "2">>
D_9999_12_30 == <<"9", "9", "9", "9", "-", "1", "2", "-", "3", "0">>
D_9999_12_31 == <<"9", "9", "9", "9", "-", "1", "2", "-", "3", "1">>
D_2025_13_01 == <<"2", "0", "2", "5", "-", "1", "3", "-", "0", "1">>
D_2025_02_29 == <<"2", "0", "2", "5", "-", "0", "2", "-", "2", "9">>
D_06s01s2025 == <<"0", "6", "/", "0", "1", "/", "2", "0", "2", "5">>
D_empty == <<>>
D_2025_06_011 == <<"2", "0", "2", "5", "-", "0", "6", "-", "0", "1", "1">>

ParsableDates ==
    {D_2025_06_01, D_2025_06_02, D_2025_06_03, D_2025_06_04,
     D_2025_06_08, D_2025_6_1, D_2024_02_27, D_2024_03_02,
     D_2025_12_30, D_2026_01_02, D_9999_12_30, D_9999_12_31}
UnparsableDates ==
    {D_2025_13_01, D_2025_02_29, D_06s01s2025, D_empty, D_2025_06_011}
DateStrings == ParsableDates \cup UnparsableDates

\* a trip of the model has at most MaxTripDays days (any number backwards)
TripWithinBound(departure_date, return_date) ==
    LET departure == strptime(departure_date)
        return_dt == strptime(return_date)
    IN  departure.exc = "none" /\ return_dt.exc = "none"
            => return_dt.value - departure.value <= MaxTripDays

Activity(date, price, rating, duration, total) ==
    [date |-> date, price_per_person |-> price, rating |-> rating,
     duration_hours |-> duration, total_price |-> total]

DatePairs == {p \in DateStrings \X DateStrings : TripWithinBound(p[1], p[2])}

\* requests to create_itinerary with every pair of dates and short lists
DateRequests ==
    {[flights |-> f, hotels |-> h, activities |-> a,
      departure_date |-> p[1], return_date |-> p[2]] :
        f \in {<<>>, <<[total_price |-> 500, duration_hours |-> 7]>>},
        h \in {<<>>, <<[total_price |-> 800, rating |-> 5]>>},
        a \in {<<>>, <<Activity(D_2025_06_02, 50, 4, 3, 100)>>},
        p \in DatePairs}

\* activities on the two full days of 2025-06-01 to 2025-06-04, one on the
\* day of departure, one on the day of the return and one whose date is
\* written without the zeros
DatedActivities ==
    { Activity(D_2025_06_02, 50, 4, 3, 100),
      Activity(D_2025_06_02, 25, 5, 1, 50),
      Activity(D_2025_06_03, 50, 4, 3, 100),
      Activity(D_2025_06_01, 25, 5, 1, 50),
      Activity(D_2025_06_04, 25, 5, 1, 50),
      [date |-> <<"2", "0", "2", "5", "-", "6", "-", "2">>,
       price_per_person |-> 25, rating |-> 5, duration_hours |-> 1] }

\* requests to create_itinerary for these days with longer lists of activities
DayRequests ==
    {[flights |-> f, hotels |-> h, activities |-> a,
      departure_date |-> D_2025_06_01, return_date |-> D_2025_06_04] :
        f \in {<<>>, <<[total_price |-> 500, duration_hours |-> 7]>>},
        h \in {<<>>, <<[total_price |-> 800, rating |-> 5]>>},
        a \in SeqsUpTo(DatedActivities, MaxDayActivities)}

\* requests to create_itinerary for the same days whose flight or hotel misses
\* a field, or whose hotel carries a duration_hours of its own
TotalsRequests ==
    {[flights |-> f, hotels |-> h, activities |-> a,
      departure_date |-> D_2025_06_01, return_date |-> D_2025_06_04] :
        f \in {<<>>, <<[total_price |-> 500, duration_hours |-> 7]>>,
                <<[total_price |-> 800]>>, <<[duration_hours |-> 5]>>},
        h \in {<<>>, <<[total_price |-> 800, rating |-> 5]>>, <<[rating |-> 5]>>,
                <<[total_price |-> 800, rating |-> 5, duration_hours |-> 2]>>},
        a \in SeqsUpTo({Activity(D_2025_06_02, 50, 4, 3, 100),
                        Activity(D_2025_06_03, 25, 5, 1, 50)}, MaxTotalsActivities)}

(***************************************************************************)
(* The state machine: a caller constructs an optimizer and, when that      *)
(* succeeded, calls one of its methods.                                    *)
(***************************************************************************)
Init ==
    /\ self = None
    /\ pc = "new"
    /\ op = "none"
    /\ args = <<>>
    /\ ret = None
    /\ exc = "none"

\* ItineraryOptimizer(cost_weight, time_weight)
Construct(cost_weight, time_weight) ==
    /\ pc = "new"
    /\ op' = "__init__"
    /\ args' = [cost_weight |-> cost_weight, time_weight |-> time_weight]
    /\ ret' = None
    /\ IF WeightsRejected(cost_weight, time_weight)
       THEN /\ exc' = "ValueError"
            /\ self' = None
            /\ pc' = "failed"
       ELSE /\ exc' = "none"
            /\ self' = [cost_weight |-> cost_weight, time_weight |-> time_weight]
            /\ pc' = "ready"

CallNormalizeCost(costs) ==
    /\ pc = "ready"
    /\ op' = "normalize_cost"
    /\ args' = [values |-> costs]
    /\ ret' = normalize_cost(costs)
    /\ exc' = "none"
    /\ pc' = "done"
    /\ UNCHANGED self

CallNormalizeTime(times) ==
    /\ pc = "ready"
    /\ op' = "normalize_time"
    /\ args' = [values |-> times]
    /\ ret' = normalize_time(times)
    /\ exc' = "none"
    /\ pc' = "done"
    /\ UNCHANGED self

CallSelectBestFlight(flights) ==
    /\ pc = "ready"
    /\ op' = "select_best_flight"
    /\ args' = [flights |-> flights]
    /\ ret' = select_best_flight(self, flights)
    /\ exc' = "none"
    /\ pc' = "done"
    /\ UNCHANGED self

CallSelectBestHotel(hotels) ==
    /\ pc = "ready"
    /\ op' = "select_best_hotel"
    /\ args' = [hotels |-> hotels]
    /\ ret' = select_best_hotel(self, hotels)
    /\ exc' = "none"
    /\ pc' = "done"
    /\ UNCHANGED self

CallSelectActivities(activities, max_activities_per_day, max_total_hours) ==
    /\ pc = "ready"
    /\ op' = "select_activities"
    /\ args' = [activities |-> activities,
                max_activities_per_day |-> max_activities_per_day,
                max_total_hours |-> max_total_hours]
    /\ ret' = select_activities(activities, max_activities_per_day, max_total_hours)
    /\ exc' = "none"
    /\ pc' = "done"
    /\ UNCHANGED self

CallCreateItinerary(request) ==
    /\ pc = "ready"
    /\ op' = "create_itinerary"
    /\ args' = request
    /\ LET result == create_itinerary(self, request.flights, request.hotels,
                                      request.activities, request.departure_date,
                                      request.return_date)
       IN  /\ ret' = result.value
           /\ exc' = result.exc
    /\ pc' = "done"
    /\ UNCHANGED self

\* the two normalizers on the lists the selections build, and the selection
\* of a hotel, which normalizes the ratings itself
NextScorer ==
    \/ pc = "new" /\ \E w \in ConfigWeights : Construct(w[1], w[2])
    \/ pc = "ready" /\ \E costs \in ValueLists : CallNormalizeCost(costs)
    \/ pc = "ready" /\ \E times \in ValueLists : CallNormalizeTime(times)
    \/ pc = "ready" /\ \E hotels \in HotelLists : CallSelectBestHotel(hotels)

SpecScorer == Init /\ [][NextScorer]_vars

NextFlight ==
    \/ pc = "new" /\ \E cw \in Weights, tw \in Weights : Construct(cw, tw)
    \/ pc = "ready" /\ \E flights \in FlightLists : CallSelectBestFlight(flights)

SpecFlight == Init /\ [][NextFlight]_vars

NextHotel ==
    \/ pc = "new" /\ \E cw \in Weights, tw \in Weights : Construct(cw, tw)
    \/ pc = "ready" /\ \E hotels \in HotelLists : CallSelectBestHotel(hotels)

SpecHotel == Init /\ [][NextHotel]_vars

NextActivities ==
    \/ pc = "new" /\ \E w \in ConfigWeights : Construct(w[1], w[2])
    \/ pc = "ready" /\ \E activities \in ActivityLists \cup UnscorableLists, k \in 0..MaxPerDay, h \in HourBudgets :
          CallSelectActivities(activities, k, h)
    \/ pc = "ready" /\ \E request \in DayRequests : CallCreateItinerary(request)

SpecActivities == Init /\ [][NextActivities]_vars

NextItinerary ==
    \/ pc = "new" /\ \E w \in ConfigWeights : Construct(w[1], w[2])
    \/ pc = "ready" /\ \E request \in DateRequests \cup DayRequests \cup TotalsRequests :
          CallCreateItinerary(request)

SpecItinerary == Init /\ [][NextItinerary]_vars

\* the two selections of a single best candidate
NextSelection ==
    \/ pc = "new" /\ \E cw \in Weights, tw \in Weights : Construct(cw, tw)
    \/ pc = "ready" /\ \E flights \in FlightLists : CallSelectBestFlight(flights)
    \/ pc = "ready" /\ \E hotels \in HotelLists : CallSelectBestHotel(hotels)

SpecSelection == Init /\ [][NextSelection]_vars

\* the whole interface, each method on lists of at most one entry
Next ==
    \/ pc = "new" /\ \E cw \in Weights, tw \in Weights : Construct(cw, tw)
    \/ pc = "ready" /\ \E costs \in SeqsUpTo(Prices \cup {Inf}, 1) : CallNormalizeCost(costs)
    \/ pc = "ready" /\ \E times \in SeqsUpTo(Durations \cup {Inf}, 1) : CallNormalizeTime(times)
    \/ pc = "ready" /\ \E flights \in SeqsUpTo(Flights, 1) : CallSelectBestFlight(flights)
    \/ pc = "ready" /\ \E hotels \in SeqsUpTo(Hotels, 1) : CallSelectBestHotel(hotels)
    \/ pc = "ready" /\ \E activities \in SeqsUpTo(ActivityOptions, 1), k \in 0..MaxPerDay,
          h \in HourBudgets : CallSelectActivities(activities, k, h)
    \/ pc = "ready" /\ \E request \in DateRequests : CallCreateItinerary(request)

Spec == Init /\ [][Next]_vars

(***************************************************************************)
(* The claims                                                              *)
(***************************************************************************)
D_2025_06_05 == <<"2", "0", "2", "5", "-", "0", "6", "-", "0", "5">>
D_2025_06_06 == <<"2", "0", "2", "5", "-", "0", "6", "-", "0", "6">>
D_2025_06_07 == <<"2", "0", "2", "5", "-", "0", "6", "-", "0", "7">>

\* C1: the constructor raises (ValueError, the error kind the specification
\* calls ConfigurationError) exactly when |cost_weight + time_weight - 1.0| >
\* 0.01; an optimizer whose construction failed does not exist, so that every
\* method that ran did so on weights that passed the test; (0.5, 0.4) is
\* refused and (0.6, 0.4) accepted.
C1_ConstructorChecksWeights ==
    /\ op = "__init__" =>
          /\ exc \in {"ValueError", "none"}
          /\ exc = "ValueError" <=>
                Abs(args.cost_weight + args.time_weight - 100) > 1
          /\ exc = "ValueError" => self = None /\ pc = "failed"
          /\ exc = "none" => self = args /\ pc = "ready"
          /\ args = [cost_weight |-> 50, time_weight |-> 40] => exc = "ValueError"
          /\ args = [cost_weight |-> 60, time_weight |-> 40] => exc = "none"
    /\ pc = "failed" => op = "__init__" /\ self = None
    /\ op \notin {"none", "__init__"} =>
          /\ self # None
          /\ Abs(self.cost_weight + self.time_weight - 100) <= 1

\* C1 (witness): the constructor has refused (0.5, 0.4)
C1_Witness ==
    /\ pc = "failed"
    /\ exc = "ValueError"
    /\ args = [cost_weight |-> 50, time_weight |-> 40]

\* C2: create_itinerary with a departure or return date that does not parse
\* raises (ValueError, the specification's InvalidDateError) and returns
\* nothing, whatever the three lists hold.
C2_UnparsableDateRaises ==
    (/\ op = "create_itinerary"
     /\ \/ args.departure_date \in UnparsableDates
        \/ args.return_date \in UnparsableDates)
    => exc = "ValueError" /\ ret = None

\* C2 (witness): a call with flights, a hotel and an activity whose return date
\* is the 29th of February of a year that has none
C2_Witness ==
    /\ op = "create_itinerary"
    /\ args.departure_date = D_2025_06_01
    /\ args.return_date = D_2025_02_29
    /\ args.flights # <<>> /\ args.hotels # <<>> /\ args.activities # <<>>
    /\ exc = "ValueError"

\* the dates of a request are such that the date arithmetic cannot fail
DatesAreFine(request) ==
    /\ request.departure_date \in ParsableDates
    /\ request.return_date \in ParsableDates
    /\ request.departure_date # D_9999_12_31

\* C3: an empty list is no error: create_itinerary raises only for its dates;
\* without flights the flight is None, without hotels the hotel is None,
\* without activities every day plan is empty with cost and time 0, and with
\* all three empty the totals are 0; 2025-06-01 to 2025-06-08 with empty lists
\* gives the six empty day plans of June 2 to June 7 and duration_days = 7.
C3_EmptyListsAreNoError ==
    op = "create_itinerary" =>
        /\ DatesAreFine(args) => exc = "none"
        /\ exc = "none" =>
              /\ args.flights = <<>> => ret.flight = None
              /\ args.hotels = <<>> => ret.hotel = None
              /\ args.activities = <<>> =>
                    \A i \in DOMAIN ret.days :
                        /\ ret.days[i].activities = <<>>
                        /\ ret.days[i].total_cost = 0
                        /\ ret.days[i].total_time_hours = 0
              /\ (args.flights = <<>> /\ args.hotels = <<>> /\ args.activities = <<>>) =>
                    /\ ret.summary.total_cost = 0
                    /\ ret.summary.total_time_hours = 0
        /\ (/\ args.flights = <<>> /\ args.hotels = <<>> /\ args.activities = <<>>
            /\ args.departure_date = D_2025_06_01
            /\ args.return_date = D_2025_06_08) =>
              /\ exc = "none"
              /\ [i \in DOMAIN ret.days |-> ret.days[i].date] =
                    <<D_2025_06_02, D_2025_06_03, D_2025_06_04,
                      D_2025_06_05, D_2025_06_06, D_2025_06_07>>
              /\ ret.summary.duration_days = 7

\* C3 (witness): the call with three empty lists for 2025-06-01 to 2025-06-08
\* has returned six day plans
C3_Witness ==
    /\ op = "create_itinerary"
    /\ args.flights = <<>> /\ args.hotels = <<>> /\ args.activities = <<>>
    /\ args.departure_date = D_2025_06_01
    /\ args.return_date = D_2025_06_08
    /\ exc = "none"
    /\ Len(ret.days) = 6

\* the day plans are those of the dates departure + 1 .. return - 1, in order,
\* and duration_days is return - departure
DaysAreTheFullDays ==
    LET departure == strptime(args.departure_date).value
        return_dt == strptime(args.return_date).value
    IN  /\ exc = "none"
        /\ Len(ret.days) = (IF return_dt - departure > 1
                            THEN return_dt - departure - 1 ELSE 0)
        /\ \A i \in DOMAIN ret.days : ret.days[i].date = strftime(departure + i)
        /\ \A i, j \in DOMAIN ret.days :
              i < j => strptime(ret.days[i].date).value < strptime(ret.days[j].date).value
        /\ return_dt <= departure + 1 => ret.days = <<>>
        /\ ret.summary.duration_days = return_dt - departure

\* C4 (as claimed): for any two dates that parse, the call returns one day plan
\* per date strictly between them, in ascending order, none when the return is
\* at most a day after the departure, and duration_days = return - departure.
\* Violated: from 9999-12-31 the first full day is behind the last date there
\* is, and the call raises OverflowError.
C4_DaysForAnyValidDates ==
    (/\ op = "create_itinerary"
     /\ args.departure_date \in ParsableDates
     /\ args.return_date \in ParsableDates)
    => DaysAreTheFullDays

\* C4, for every departure but the last day of the calendar
C4_DaysUnlessLastDay ==
    (op = "create_itinerary" /\ DatesAreFine(args)) => DaysAreTheFullDays

Zero == Rat(0, 1)

\* the score the specification gives flight i of a list: cost_weight *
\* normalize(total_price, minimize) + time_weight * normalize(duration_hours,
\* minimize)
ClaimedFlightScore(obj, flights, i) ==
    FAdd(FScale(obj.cost_weight, normalize_cost(FlightCosts(flights))[i]),
         FScale(obj.time_weight, normalize_time(FlightTimes(flights))[i]))

\* entry i of a list is the first whose score is the maximum of the list
FirstBestFlight(obj, flights, i) ==
    /\ \A j \in DOMAIN flights :
          FLeq(ClaimedFlightScore(obj, flights, j), ClaimedFlightScore(obj, flights, i))
    /\ \A j \in 1..(i - 1) :
          FLess(ClaimedFlightScore(obj, flights, j), ClaimedFlightScore(obj, flights, i))

FlightSelectionAsClaimed ==
    /\ exc = "none"
    /\ args.flights = <<>> => ret = None
    /\ args.flights # <<>> =>
          \E i \in DOMAIN args.flights :
              ret = args.flights[i] /\ FirstBestFlight(self, args.flights, i)

\* the weights are in [0, 1], as the specification has them
WeightsInUnitInterval(obj) ==
    obj.cost_weight \in 0..100 /\ obj.time_weight \in 0..100

\* every flight of the list has both fields
FlightsComplete(flights) ==
    \A i \in DOMAIN flights :
        DOMAIN flights[i] = {"total_price", "duration_hours"}

\* C6 (as claimed): for every list of flights select_best_flight returns the
\* first flight whose combined score is the maximum of the list, and None for
\* the empty list.  Violated: the score of a flight without total_price (or
\* without duration_hours) beside a flight that has the field is NaN, which
\* is no maximum, and np.argmax returns that flight.
C6_FlightIsFirstArgmax ==
    (op = "select_best_flight" /\ WeightsInUnitInterval(self))
    => FlightSelectionAsClaimed

\* C6, for the lists in which no flight misses a field
C6_CompleteFlights ==
    (op = "select_best_flight" /\ FlightsComplete(args.flights))
    => FlightSelectionAsClaimed

\* the score the specification gives hotel i of a list: cost_weight *
\* normalize(total_price, minimize) + time_weight * normalize(rating, maximize)
ClaimedHotelScore(obj, hotels, i) ==
    FAdd(FScale(obj.cost_weight, normalize_cost(HotelCosts(hotels))[i]),
         FScale(obj.time_weight, RatingScores(HotelRatings(hotels))[i]))

FirstBestHotel(obj, hotels, i) ==
    /\ \A j \in DOMAIN hotels :
          FLeq(ClaimedHotelScore(obj, hotels, j), ClaimedHotelScore(obj, hotels, i))
    /\ \A j \in 1..(i - 1) :
          FLess(ClaimedHotelScore(obj, hotels, j), ClaimedHotelScore(obj, hotels, i))

HotelSelectionAsClaimed ==
    /\ exc = "none"
    /\ args.hotels # <<>> =>
          \E i \in DOMAIN args.hotels :
              ret = args.hotels[i] /\ FirstBestHotel(self, args.hotels, i)

\* C7 (as claimed): for every list of hotels select_best_hotel returns the
\* first hotel whose score, with time_weight on the rating, is the maximum of
\* the list.  Violated: the score of a hotel without total_price beside a
\* hotel that has one is NaN, and np.argmax returns that hotel.
C7_HotelIsFirstArgmax ==
    (op = "select_best_hotel" /\ WeightsInUnitInterval(self))
    => HotelSelectionAsClaimed

\* C7, for the lists in which every hotel has a price
C7_PricedHotels ==
    (/\ op = "select_best_hotel"
     /\ \A i \in DOMAIN args.hotels : "total_price" \in DOMAIN args.hotels[i])
    => HotelSelectionAsClaimed

\* the first flight of the list with the lowest total_price
CheapestFirst(flights, i) ==
    LET costs == FlightCosts(flights)
    IN  /\ \A j \in DOMAIN flights : costs[i] <= costs[j]
        /\ \A j \in 1..(i - 1) : costs[i] < costs[j]

CheapestAsClaimed ==
    \E i \in DOMAIN args.flights :
        ret = args.flights[i] /\ CheapestFirst(args.flights, i)

\* C8 (as claimed): with the weights (1.0, 0.0) select_best_flight returns the
\* first flight with the lowest total_price, whatever the durations.
\* Violated: a flight without duration_hours beside one that has it scores
\* 1.0 * cost + 0.0 * NaN = NaN and is returned at any price.
C8_CostOnlyPicksCheapest ==
    (/\ op = "select_best_flight"
     /\ self = [cost_weight |-> 100, time_weight |-> 0]
     /\ args.flights # <<>>)
    => CheapestAsClaimed

\* C8, for the lists in which no flight misses a field
C8_CompleteFlights ==
    (/\ op = "select_best_flight"
     /\ self = [cost_weight |-> 100, time_weight |-> 0]
     /\ args.flights # <<>>
     /\ FlightsComplete(args.flights))
    => CheapestAsClaimed

\* C9: select_activities returns at most max_activities_per_day activities
\* whose durations sum to at most max_total_hours, each limit on its own (five
\* activities of three hours with the limits 3 and 8 give at most two), and so
\* every day plan of create_itinerary has at most 3 activities and at most 8
\* hours.
C9_ActivityLimits ==
    /\ op = "select_activities" =>
          /\ Len(ret) <= args.max_activities_per_day
          /\ SumOf(ret, "duration_hours") <= args.max_total_hours
          /\ (/\ Len(args.activities) = 5
              /\ \A i \in DOMAIN args.activities :
                    Get(args.activities[i], "duration_hours", 0) = 3
              /\ args.max_activities_per_day = 3
              /\ args.max_total_hours = 8) => Len(ret) <= 2
    /\ (op = "create_itinerary" /\ exc = "none") =>
          \A i \in DOMAIN ret.days :
              /\ Len(ret.days[i].activities) <= 3
              /\ ret.days[i].total_time_hours <= 8
              /\ SumOf(ret.days[i].activities, "duration_hours") <= 8

\* C9 (witness): of five activities of three hours each, with the limits 3 and
\* 8, two were selected: the hours bind before the count does
C9_Witness ==
    /\ op = "select_activities"
    /\ Len(args.activities) = 5
    /\ \A i \in DOMAIN args.activities :
          Get(args.activities[i], "duration_hours", 0) = 3
    /\ args.max_activities_per_day = 3
    /\ args.max_total_hours = 8
    /\ Len(ret) = 2

\* the values of a normalized list are numbers of [0, 1], the smallest input
\* is at 1 and, when the inputs differ, the largest at 0
MinimizeAsClaimed(values, normalized) ==
    /\ Len(normalized) = Len(values)
    /\ \A i \in DOMAIN values :
          /\ FLeq(Zero, normalized[i]) /\ FLeq(normalized[i], One)
          /\ values[i] = SeqMin(values) => FEq(normalized[i], One)
          /\ (values[i] = SeqMax(values) /\ SeqMax(values) # SeqMin(values))
                => FEq(normalized[i], Zero)

MaximizeAsClaimed(values, normalized) ==
    /\ Len(normalized) = Len(values)
    /\ \A i \in DOMAIN values :
          /\ FLeq(Zero, normalized[i]) /\ FLeq(normalized[i], One)
          /\ values[i] = SeqMax(values) => FEq(normalized[i], One)

\* C10 (as claimed): a normalized list has the length and order of its input
\* and values in [0, 1]; under minimize the smallest input is at 1.0 and the
\* largest, when they differ, at 0.0; under maximize (the ratings of the
\* hotels) the largest is at 1.0.  Violated: a list that holds inf (the cost
\* of a candidate without total_price) beside a finite value normalizes inf
\* to NaN.
C10_NormalizedInUnitInterval ==
    /\ (op \in {"normalize_cost", "normalize_time"} /\ args.values # <<>>) =>
          MinimizeAsClaimed(args.values, ret)
    /\ (op = "select_best_hotel" /\ args.hotels # <<>>) =>
          MaximizeAsClaimed(HotelRatings(args.hotels),
                            RatingScores(HotelRatings(args.hotels)))

\* C10, for the lists of finite values
C10_FiniteValues ==
    /\ (/\ op \in {"normalize_cost", "normalize_time"}
        /\ args.values # <<>>
        /\ \A i \in DOMAIN args.values : args.values[i] # Inf) =>
          MinimizeAsClaimed(args.values, ret)
    /\ (op = "select_best_hotel" /\ args.hotels # <<>>) =>
          MaximizeAsClaimed(HotelRatings(args.hotels),
                            RatingScores(HotelRatings(args.hotels)))

AllEqual(values) == \A i, j \in DOMAIN values : values[i] = values[j]

\* C11: a list whose values are all equal (a single value too) normalizes to
\* 1.0 at every position, under minimize (normalize_cost, normalize_time) and
\* under maximize (the ratings of the hotels), and the empty list normalizes
\* to the empty sequence without an error.
C11_DegenerateLists ==
    /\ op \in {"normalize_cost", "normalize_time"} =>
          /\ exc = "none"
          /\ args.values = <<>> => ret = <<>>
          /\ (args.values # <<>> /\ AllEqual(args.values)) =>
                ret = [i \in DOMAIN args.values |-> One]
    /\ (/\ op = "select_best_hotel"
        /\ args.hotels # <<>>
        /\ AllEqual([i \in DOMAIN args.hotels |-> Get(args.hotels[i], "rating", 0)])) =>
          RatingScores(HotelRatings(args.hotels)) =
              [i \in DOMAIN args.hotels |-> One]

\* C11 (witness): normalize_cost has mapped two equal costs to 1.0 and 1.0
C11_Witness ==
    /\ op = "normalize_cost"
    /\ args.values = <<800, 800>>
    /\ ret = <<One, One>>

\* the sum of a field over the day plans
RECURSIVE PlanTotal(_, _)
PlanTotal(days, key) ==
    IF days = <<>> THEN 0 ELSE Head(days)[key] + PlanTotal(Tail(days), key)

\* the value of a field of the selected flight or hotel, 0 when there is none
\* (or when it does not have the field)
FieldOrZero(selection, key) ==
    IF selection = None THEN 0
    ELSE IF key \in DOMAIN selection THEN selection[key] ELSE 0

\* C12: in every itinerary returned, summary.total_cost is the total_price of
\* the selected flight (0 without one) plus that of the selected hotel (0
\* without one) plus the total_cost of all day plans, and
\* summary.total_time_hours is the duration_hours of the selected flight (0
\* without one) plus the total_time_hours of all day plans: a hotel adds
\* nothing to the time, even one that has a duration_hours.
C12_SummaryTotals ==
    (op = "create_itinerary" /\ exc = "none") =>
        /\ ret.summary.total_cost =
              FieldOrZero(ret.flight, "total_price")
              + FieldOrZero(ret.hotel, "total_price")
              + PlanTotal(ret.days, "total_cost")
        /\ ret.summary.total_time_hours =
              FieldOrZero(ret.flight, "duration_hours")
              + PlanTotal(ret.days, "total_time_hours")

\* C12 (witness): an itinerary with a flight of 500 and 7 hours, a hotel of 800
\* that has a duration_hours of 2, and two days with one activity each (100
\* and 3 hours, 50 and 1 hour): 1450 and 11 hours
C12_Witness ==
    /\ op = "create_itinerary"
    /\ exc = "none"
    /\ ret.flight = [total_price |-> 500, duration_hours |-> 7]
    /\ ret.hotel = [total_price |-> 800, rating |-> 5, duration_hours |-> 2]
    /\ Len(ret.days) = 2
    /\ Len(ret.days[1].activities) = 1 /\ Len(ret.days[2].activities) = 1
    /\ ret.summary.total_cost = 1450
    /\ ret.summary.total_time_hours = 11

\* a candidate of the list that has the field key and whose other field (other,
\* or the default the code reads for it) is related by AtLeastAsGood to that
\* of the candidate returned
HasRival(candidates, key, AtLeastAsGood(_)) ==
    \E i \in DOMAIN candidates :
        key \in DOMAIN candidates[i] /\ AtLeastAsGood(candidates[i])

\* C13 (as claimed): with cost_weight > 0, a flight (hotel) without total_price
\* is not the one returned when the list holds a flight (hotel) with a
\* total_price whose duration_hours is at most (whose rating is at least) its
\* own; with time_weight > 0, a flight without duration_hours is not the one
\* returned when the list holds a flight with a duration_hours that is at most
\* as expensive.  Violated: the cost inf of the missing field normalizes to
\* NaN beside a finite cost, the score is NaN, and np.argmax returns the
\* first NaN.
C13_MissingFieldNotPreferred ==
    /\ (/\ op = "select_best_flight" /\ args.flights # <<>>
        /\ WeightsInUnitInterval(self) /\ self.cost_weight > 0
        /\ "total_price" \notin DOMAIN ret) =>
          LET NoSlower(f) == Get(f, "duration_hours", Inf) <= Get(ret, "duration_hours", Inf)
          IN  ~HasRival(args.flights, "total_price", NoSlower)
    /\ (/\ op = "select_best_flight" /\ args.flights # <<>>
        /\ WeightsInUnitInterval(self) /\ self.time_weight > 0
        /\ "duration_hours" \notin DOMAIN ret) =>
          LET NoDearer(f) == Get(f, "total_price", Inf) <= Get(ret, "total_price", Inf)
          IN  ~HasRival(args.flights, "duration_hours", NoDearer)
    /\ (/\ op = "select_best_hotel" /\ args.hotels # <<>>
        /\ WeightsInUnitInterval(self) /\ self.cost_weight > 0
        /\ "total_price" \notin DOMAIN ret) =>
          LET NoWorse(h) == Get(h, "rating", 0) >= Get(ret, "rating", 0)
          IN  ~HasRival(args.hotels, "total_price", NoWorse)

InUnitInterval(x) == FLeq(Zero, x) /\ FLeq(x, One)

\* every score of the call is a number of [0, 1]
ScoresInUnitInterval ==
    /\ op = "select_best_flight" =>
          \A i \in DOMAIN args.flights :
              InUnitInterval(FlightScores(self, args.flights)[i])
    /\ op = "select_best_hotel" =>
          \A i \in DOMAIN args.hotels :
              InUnitInterval(HotelScores(self, args.hotels)[i])

\* C14 (as claimed): the weights of every optimizer that was constructed lie in
\* [0, 1], and so does the score of every flight and hotel.  Violated: the
\* constructor tests the sum only and accepts (1.5, -0.5), with which a
\* score is 1.5 or -0.5.
C14_WeightsAndScoresInUnitInterval ==
    /\ self # None => WeightsInUnitInterval(self)
    /\ self # None => ScoresInUnitInterval

\* C14, for weights of [0, 1] and candidates that miss no price
C14_ScoresForWeightsInRange ==
    (/\ self # None /\ WeightsInUnitInterval(self)
     /\ op = "select_best_flight" => FlightsComplete(args.flights)
     /\ op = "select_best_hotel" =>
           \A i \in DOMAIN args.hotels : "total_price" \in DOMAIN args.hotels[i])
    => ScoresInUnitInterval

\* the four activities of ActivityOptions
Act_8_3h == [price_per_person |-> 50, rating |-> 4, duration_hours |-> 3]
Act_20_5h == [price_per_person |-> 25, rating |-> 5, duration_hours |-> 5]
Act_8_1h == [price_per_person |-> 50, rating |-> 4, duration_hours |-> 1]

\* the candidates of a call in the order of the walk
SortedCandidates ==
    LET sorted == SortDescending(<<>>, ActivitiesWithValue(args.activities))
    IN  [i \in DOMAIN sorted |-> sorted[i].activity]

\* the hours of the candidates 1..i that are in the set A of positions
RECURSIVE HoursOf(_, _, _)
HoursOf(candidates, A, i) ==
    IF i = 0 THEN 0
    ELSE HoursOf(candidates, A, i - 1)
         + (IF i \in A THEN candidates[i].duration_hours ELSE 0)

\* the candidates 1..i that are in the set A of positions, in their order
RECURSIVE Pick(_, _, _)
Pick(candidates, A, i) ==
    IF i = 0 THEN <<>>
    ELSE Pick(candidates, A, i - 1) \o (IF i \in A THEN <<candidates[i]>> ELSE <<>>)

\* candidate i fits at its turn, when the candidates of A before it were accepted
FitsAtItsTurn(candidates, A, i, K, H) ==
    /\ Cardinality(A \cap 1..(i - 1)) < K
    /\ HoursOf(candidates, A, i - 1) + candidates[i].duration_hours <= H

\* C15: select_activities walks the value-sorted candidates once: a candidate
\* is accepted exactly when, at its turn, fewer than K were accepted and the
\* hours accepted so far plus its own are at most H; a candidate that was
\* refused is not looked at again, and the walk goes on behind it.  The
\* result is the accepted candidates in the order of the walk.
C15_SinglePassGreedy ==
    op = "select_activities" =>
        LET candidates == SortedCandidates
        IN  \E A \in SUBSET DOMAIN candidates :
                /\ \A i \in DOMAIN candidates :
                      i \in A <=> FitsAtItsTurn(candidates, A, i,
                                                args.max_activities_per_day,
                                                args.max_total_hours)
                /\ ret = Pick(candidates, A, Len(candidates))

\* C15 (witness): of three candidates of three hours and one of one hour, all
\* of the same value, the third is refused (nine hours) and the fourth, behind
\* it, is accepted
C15_Witness ==
    /\ op = "select_activities"
    /\ args.activities = <<Act_8_3h, Act_8_3h, Act_8_3h, Act_8_1h>>
    /\ args.max_activities_per_day = 3
    /\ args.max_total_hours = 8
    /\ ret = <<Act_8_3h, Act_8_3h, Act_8_1h>>

\* the value (rating * 2) / (price_per_person / 50) of a is at least (is equal
\* to) that of b, for activities with a positive price
ValueAtLeast(a, b) ==
    Get(a, "rating", 0) * b.price_per_person >= Get(b, "rating", 0) * a.price_per_person
ValueEqual(a, b) ==
    Get(a, "rating", 0) * b.price_per_person = Get(b, "rating", 0) * a.price_per_person

\* the entries of a list whose value is that of a, in their order
SameValue(list, a) == SelectSeq(list, LAMBDA b : ValueEqual(b, a))

\* the entries of part can be struck from whole in the order of part
RECURSIVE IsSubsequence(_, _)
IsSubsequence(part, whole) ==
    IF part = <<>> THEN TRUE
    ELSE IF whole = <<>> THEN FALSE
    ELSE IF Head(part) = Head(whole) THEN IsSubsequence(Tail(part), Tail(whole))
    ELSE IsSubsequence(part, Tail(whole))

\* C16: the list select_activities returns is in the order of non-increasing
\* value (rating * 2) / (price_per_person / 50), and the activities of one
\* value are in the order they have in the input: the order is that of the
\* acceptance, not that of the input.
C16_ValueOrderStable ==
    op = "select_activities" =>
        /\ \A i, j \in DOMAIN ret : i < j => ValueAtLeast(ret[i], ret[j])
        /\ \A i \in DOMAIN ret :
              IsSubsequence(SameValue(ret, ret[i]), SameValue(args.activities, ret[i]))

\* C16 (witness): the activity of value 20 comes first although it is second
\* in the input, and of the two activities of value 8 the one that is earlier
\* in the input is taken, after which the other does not fit
C16_Witness ==
    /\ op = "select_activities"
    /\ args.activities = <<Act_8_3h, Act_20_5h, Act_8_1h>>
    /\ args.max_activities_per_day = 3
    /\ args.max_total_hours = 8
    /\ ret = <<Act_20_5h, Act_8_3h>>

\* C17: an activity whose price_per_person is not positive, or whose
\* duration_hours is not positive or missing, is never in the list that
\* select_activities returns.
C17_UnscorableNeverSelected ==
    op = "select_activities" =>
        \A i \in DOMAIN ret :
            /\ Get(ret[i], "price_per_person", Inf) > 0
            /\ "duration_hours" \in DOMAIN ret[i]
            /\ ret[i].duration_hours > 0

\* C17 (witness): an activity with the price 0, one with the duration 0 (both
\* rated 5) and one rated 4 with a price and a duration: only the last is
\* returned, with two more places and seven hours to spare
C17_Witness ==
    /\ op = "select_activities"
    /\ args.activities =
          <<[price_per_person |-> 0, rating |-> 5, duration_hours |-> 1],
            [price_per_person |-> 50, rating |-> 5, duration_hours |-> 0],
            [price_per_person |-> 50, rating |-> 4, duration_hours |-> 1]>>
    /\ args.max_activities_per_day = 3
    /\ args.max_total_hours = 8
    /\ ret = <<[price_per_person |-> 50, rating |-> 4, duration_hours |-> 1]>>

\* the sum of a field over a list of activities, 0 for an activity without it
RECURSIVE FieldSum(_, _)
FieldSum(list, key) ==
    IF list = <<>> THEN 0
    ELSE FieldOrZero(Head(list), key) + FieldSum(Tail(list), key)

\* how often a is in a list
CountOf(list, a) == Cardinality({i \in DOMAIN list : list[i] = a})

\* the total_price of all activities of all day plans
RECURSIVE PlannedCost(_)
PlannedCost(days) ==
    IF days = <<>> THEN 0
    ELSE FieldSum(Head(days).activities, "total_price") + PlannedCost(Tail(days))

\* C18: every activity of a day plan is an entry of the input whose date is the
\* date of the plan, no entry of the input is in a plan more often than in
\* the input, the plan's total_cost and total_time_hours are the sums of the
\* total_price and the duration_hours of its activities; an activity dated
\* outside the full days (on the day of the departure or of the return, or
\* with a date written in another way) is in no plan, adds nothing to the
\* summary and causes no error.
C18_DayPlansHoldTheirDay ==
    op = "create_itinerary" =>
        /\ DatesAreFine(args) => exc = "none"
        /\ exc = "none" =>
              /\ \A k \in DOMAIN ret.days :
                    LET plan == ret.days[k]
                    IN  /\ \A i \in DOMAIN plan.activities :
                              LET a == plan.activities[i]
                              IN  /\ "date" \in DOMAIN a
                                  /\ a.date = plan.date
                                  /\ \E j \in DOMAIN args.activities : args.activities[j] = a
                                  /\ CountOf(plan.activities, a) <= CountOf(args.activities, a)
                        /\ plan.total_cost = FieldSum(plan.activities, "total_price")
                        /\ plan.total_time_hours = FieldSum(plan.activities, "duration_hours")
              /\ \A j \in DOMAIN args.activities :
                    LET a == args.activities[j]
                    IN  (\A k \in DOMAIN ret.days : Get(a, "date", None) # ret.days[k].date)
                        => \A k \in DOMAIN ret.days :
                              \A i \in DOMAIN ret.days[k].activities :
                                  ret.days[k].activities[i] # a
              /\ ret.summary.total_cost =
                    FieldOrZero(ret.flight, "total_price")
                    + FieldOrZero(ret.hotel, "total_price")
                    + PlannedCost(ret.days)

\* C18 (witness): of four activities, on the day of the departure, on the two
\* full days and on the day of the return, the two of the full days are
\* planned, each on its day, and the summary holds their 200
C18_Witness ==
    /\ op = "create_itinerary"
    /\ exc = "none"
    /\ args.flights = <<>> /\ args.hotels = <<>>
    /\ args.activities = <<Activity(D_2025_06_01, 25, 5, 1, 50),
                           Activity(D_2025_06_02, 50, 4, 3, 100),
                           Activity(D_2025_06_04, 25, 5, 1, 50),
                           Activity(D_2025_06_03, 50, 4, 3, 100)>>
    /\ Len(ret.days) = 2
    /\ ret.days[1].activities = <<Activity(D_2025_06_02, 50, 4, 3, 100)>>
    /\ ret.days[2].activities = <<Activity(D_2025_06_03, 50, 4, 3, 100)>>
    /\ ret.summary.total_cost = 200

\* C19: when select_activities returns (K >= 0), either K activities were
\* selected or no candidate that passed the filter and was not selected has a
\* duration that fits into H minus the hours selected.
C19_SelectionIsMaximal ==
    op = "select_activities" =>
        \/ Len(ret) = args.max_activities_per_day
        \/ \A j \in DOMAIN args.activities :
              LET a == args.activities[j]
              IN  (/\ Get(a, "price_per_person", Inf) > 0
                   /\ "duration_hours" \in DOMAIN a
                   /\ a.duration_hours > 0
                   /\ CountOf(ret, a) < CountOf(args.activities, a))
                  => a.duration_hours >
                         args.max_total_hours - FieldSum(ret, "duration_hours")

\* C19 (witness): two of three candidates were selected with K = 3, they fill
\* the eight hours, and the third, of three hours, is left out
C19_Witness ==
    /\ op = "select_activities"
    /\ args.activities = <<Act_20_5h, Act_8_3h, Act_8_3h>>
    /\ args.max_activities_per_day = 3
    /\ args.max_total_hours = 8
    /\ ret = <<Act_20_5h, Act_8_3h>>

\* flight f is at most as expensive and at most as long as g, and better in one
FlightDominates(f, g) ==
    /\ f.total_price <= g.total_price
    /\ f.duration_hours <= g.duration_hours
    /\ f.total_price < g.total_price \/ f.duration_hours < g.duration_hours

\* hotel f is at most as expensive and rated at least as high as g, and better
\* in one
HotelDominates(f, g) ==
    /\ f.total_price <= g.total_price
    /\ f.rating >= g.rating
    /\ f.total_price < g.total_price \/ f.rating > g.rating

HotelsComplete(hotels) ==
    \A i \in DOMAIN hotels : DOMAIN hotels[i] = {"total_price", "rating"}

\* C20: with both weights positive and candidates that have both fields, no
\* flight of the list dominates the flight returned and no hotel of the list
\* dominates the hotel returned; with the weights (1.0, 0.0) the flight of
\* 500 and 10 hours is returned before the flight of 500 and 5 hours, which
\* dominates it.
C20_NeverDominated ==
    /\ (/\ op = "select_best_flight" /\ args.flights # <<>>
        /\ self.cost_weight > 0 /\ self.time_weight > 0
        /\ FlightsComplete(args.flights)) =>
          \A i \in DOMAIN args.flights : ~FlightDominates(args.flights[i], ret)
    /\ (/\ op = "select_best_hotel" /\ args.hotels # <<>>
        /\ self.cost_weight > 0 /\ self.time_weight > 0
        /\ HotelsComplete(args.hotels)) =>
          \A i \in DOMAIN args.hotels : ~HotelDominates(args.hotels[i], ret)
    /\ (/\ op = "select_best_flight"
        /\ self = [cost_weight |-> 100, time_weight |-> 0]
        /\ args.flights = <<[total_price |-> 500, duration_hours |-> 10],
                            [total_price |-> 500, duration_hours |-> 5]>>) =>
          ret = [total_price |-> 500, duration_hours |-> 10]

\* C20 (witness): with the weights (0.6, 0.4), of a flight of 800 and 7 hours,
\* one of 500 and 5 hours and one of 1200 and 10 hours, the second, which
\* dominates the two others, is returned
C20_Witness ==
    /\ op = "select_best_flight"
    /\ self = [cost_weight |-> 60, time_weight |-> 40]
    /\ args.flights = <<[total_price |-> 800, duration_hours |-> 7],
                        [total_price |-> 500, duration_hours |-> 5],
                        [total_price |-> 1200, duration_hours |-> 10]>>
    /\ ret = [total_price |-> 500, duration_hours |-> 5]

====
